---- MODULE Spec2Model ----
(***************************************************************************)
(* Model of py-polars/polars/io.py: the source resolver                    *)
(* (_prepare_file_arg), the post-read rename (update_columns) and the      *)
(* eager readers read_csv, read_ipc and read_parquet.                      *)
(*                                                                         *)
(* Python values are encoded as follows.                                   *)
(*   str            a sequence of one-character strings                    *)
(*   Optional[T]    None is <<>>, a value v is <<v>>                       *)
(*   List[T]        a sequence                                             *)
(*   Dict[str, T]   a sequence of <<key, value>> pairs in insertion order  *)
(***************************************************************************)
EXTENDS Integers, Sequences, FiniteSets, TLC

---------------------------------------------------------------------------
(* Bounds of the model *)

\* widest table a source holds
MaxWidth == 3
\* longest rename list (new_columns) a caller passes
MaxRename == 4

---------------------------------------------------------------------------
(* Python values *)

None == <<>>

Some(v) == <<v>>

IsNone(x) == Len(x) = 0

\* truth value of an Optional[List] / Optional[Dict]: None and empty are falsy
TruthyList(x) == Len(x) = 1 /\ Len(x[1]) > 0

\* truth value of an Optional[int]: None and 0 are falsy
TruthyInt(x) == Len(x) = 1 /\ x[1] # 0

Range(s) == {s[i] : i \in 1..Len(s)}

Min(a, b) == IF a < b THEN a ELSE b

---------------------------------------------------------------------------
(* Strings *)

Digits == <<"0", "1", "2", "3", "4", "5", "6", "7", "8", "9">>

IsDigit(c) == \E d \in 1..10 : Digits[d] = c

DigitVal(c) == (CHOOSE d \in 1..10 : Digits[d] = c) - 1

\* str.startswith
startswith(s, p) == Len(s) >= Len(p) /\ SubSeq(s, 1, Len(p)) = p

\* s[k:] for a 0-based k
slice_from(s, k) == SubSeq(s, k + 1, Len(s))

RECURSIVE NatOf(_)
NatOf(ds) ==
    IF Len(ds) = 0 THEN 0
    ELSE 10 * NatOf(SubSeq(ds, 1, Len(ds) - 1)) + DigitVal(ds[Len(ds)])

Unsigned(s) == IF Len(s) > 0 /\ s[1] \in {"-", "+"} THEN Tail(s) ELSE s

\* int(s) succeeds: an optional sign followed by one or more decimal digits
can_int(s) ==
    /\ Len(Unsigned(s)) > 0
    /\ \A i \in 1..Len(Unsigned(s)) : IsDigit(Unsigned(s)[i])

\* int(s), defined where can_int(s)
int(s) == IF s[1] = "-" THEN 0 - NatOf(Tail(s)) ELSE NatOf(Unsigned(s))

RECURSIVE NatStr(_)
NatStr(n) ==
    IF n < 10 THEN <<Digits[n + 1]>>
    ELSE NatStr(n \div 10) \o <<Digits[(n % 10) + 1]>>

\* str(n) of an integer, as an f-string formats it
str(n) == IF n < 0 THEN <<"-">> \o NatStr(0 - n) ELSE NatStr(n)

column_ == <<"c", "o", "l", "u", "m", "n", "_">>

\* f"column_{k}"
column_name(k) == column_ \o str(k)

\* f"f{k}"
f_name(k) == <<"f">> \o str(k)

---------------------------------------------------------------------------
(* Dict[str, T]: pairs <<key, value>> in insertion order, keys unique *)

dict_has(d, k) == \E i \in 1..Len(d) : d[i][1] = k

\* d[k], defined where dict_has(d, k)
dict_at(d, k) == d[CHOOSE i \in 1..Len(d) : d[i][1] = k][2]

\* d.get(k, default)
dict_get(d, k, default) == IF dict_has(d, k) THEN dict_at(d, k) ELSE default

\* d[k] = v: an existing key keeps its position and takes the new value
dict_set(d, k, v) ==
    IF dict_has(d, k)
    THEN [i \in 1..Len(d) |-> IF d[i][1] = k THEN <<k, v>> ELSE d[i]]
    ELSE Append(d, <<k, v>>)

\* the dict built from a sequence of pairs, left to right
RECURSIVE dict_of(_)
dict_of(pairs) ==
    IF Len(pairs) = 0 THEN <<>>
    ELSE dict_set(dict_of(SubSeq(pairs, 1, Len(pairs) - 1)),
                  pairs[Len(pairs)][1], pairs[Len(pairs)][2])

\* zip(a, b): stops at the shorter
zip(a, b) == [i \in 1..Min(Len(a), Len(b)) |-> <<a[i], b[i]>>]

---------------------------------------------------------------------------
(* Input descriptors *)

P_local == <<"a", ".", "c", "s", "v">>

P_httpd == <<"h", "t", "t", "p", "d", ".", "c", "s", "v">>

P_http == <<"h", "t", "t", "p", ":", "/", "/", "h", "/", "a">>

P_s3 == <<"s", "3", ":", "/", "/", "b", "/", "a">>

P_file == <<"f", "i", "l", "e", ":", "/", "/", "/", "a">>

Paths == {P_local, P_httpd, P_http, P_s3, P_file}

F_StringIO == [kind |-> "StringIO", val |-> <<"a", ",", "e'">>]

F_BytesIO == [kind |-> "BytesIO", val |-> <<"a", ",", "b">>]

F_stream == [kind |-> "BinaryIO", val |-> <<"a", ",", "b">>]

F_bytes == [kind |-> "bytes", val |-> <<"a", ",", "b">>]

F_empty_bytes == [kind |-> "bytes", val |-> <<>>]

F_Path == [kind |-> "Path", val |-> P_local]

F_str(p) == [kind |-> "str", val |-> p]

F_list(ps) == [kind |-> "list", val |-> ps]

\* every descriptor read_csv and read_ipc accept
Files ==
    {F_StringIO, F_BytesIO, F_stream, F_bytes, F_empty_bytes, F_Path}
        \cup {F_str(p) : p \in Paths}

\* read_parquet also accepts lists of paths
ListFiles == {F_list(<<>>), F_list(<<P_local, P_file>>), F_list(<<P_local, P_s3>>)}

---------------------------------------------------------------------------
(* Source Resolver: _prepare_file_arg *)

SchemeSep == <<":", "/", "/">>

SchemeChars ==
    {"a", "b", "c", "d", "e", "f", "h", "i", "l", "p", "s", "t", "v",
     "0", "1", "2", "3", "4", "5", "6", "7", "8", "9"}

\* infer_storage_options(path)["protocol"]: the scheme in front of "://",
\* "file" for a path without one
protocol(path) ==
    IF \E i \in 2..(Len(path) - 2) :
            /\ SubSeq(path, i, i + 2) = SchemeSep
            /\ \A j \in 1..(i - 1) : path[j] \in SchemeChars
    THEN SubSeq(path, 1,
                (CHOOSE i \in 2..(Len(path) - 2) :
                    /\ SubSeq(path, i, i + 2) = SchemeSep
                    /\ \A j \in 1..(i - 1) : path[j] \in SchemeChars) - 1)
    ELSE <<"f", "i", "l", "e">>

is_local(path) == protocol(path) = <<"f", "i", "l", "e">>

\* str.encode("utf8"): one byte per ASCII character, two for e-acute
RECURSIVE encode_utf8(_)
encode_utf8(text) ==
    IF Len(text) = 0 THEN <<>>
    ELSE (IF text[1] = "e'" THEN <<"C3", "A9">> ELSE <<text[1]>>)
            \o encode_utf8(Tail(text))

\* managed_file(file): a context manager that yields file and releases nothing
managed_file(file) == [cm |-> "managed_file", obj |-> "none", data |-> file]

\* a BytesIO the resolver builds; it is its own context manager
new_BytesIO(bytes) ==
    [cm |-> "BytesIO", obj |-> "new", data |-> [kind |-> "BytesIO", val |-> bytes]]

\* _process_http_file(path): the response body, buffered
process_http_file(path, body) == new_BytesIO(body)

\* the body an HTTP server answers with
HttpBody == <<"a", ",", "b">>

\* the context manager _prepare_file_arg returns, with the object it is or
\* wraps (obj: the caller's, a new one of the resolver, or none) and what
\* "with ... as data" binds
prepare_file_arg(file, with_fsspec) ==
    IF file.kind = "StringIO" THEN new_BytesIO(encode_utf8(file.val))
    ELSE IF file.kind = "BytesIO"
    THEN [cm |-> "BytesIO", obj |-> "caller", data |-> file]
    ELSE IF file.kind = "Path" THEN managed_file(F_str(file.val))
    ELSE IF file.kind = "str" /\ with_fsspec
    THEN IF is_local(file.val) THEN managed_file(file)
         ELSE [cm |-> "OpenFile", obj |-> "new",
               data |-> [kind |-> "fsspec_stream", val |-> file.val]]
    ELSE IF file.kind = "str" /\ startswith(file.val, <<"h", "t", "t", "p">>)
    THEN process_http_file(file.val, HttpBody)
    ELSE IF file.kind = "list" /\ Len(file.val) > 0 /\ with_fsspec
    THEN IF \A i \in 1..Len(file.val) : is_local(file.val[i])
         THEN managed_file(file)
         ELSE [cm |-> "OpenFiles", obj |-> "new",
               data |-> [kind |-> "fsspec_streams", val |-> file.val]]
    ELSE managed_file(file)

\* the streams entering the context opens (those the resolver made)
streams_of(ctx) ==
    IF ctx.obj # "new" THEN 0
    ELSE IF ctx.cm = "OpenFiles" THEN Len(ctx.data.val)
    ELSE 1

\* resolving reaches the network (urlopen, or opening a remote file), so it
\* can fail
reaches_network(file, with_fsspec) ==
    \/ prepare_file_arg(file, with_fsspec).cm \in {"OpenFile", "OpenFiles"}
    \/ /\ file.kind = "str"
       /\ ~with_fsspec
       /\ startswith(file.val, <<"h", "t", "t", "p">>)

\* urlopen(path) raises ValueError (unknown url type) for a path that has
\* no URL scheme in front of it
urlopen_raises(path) ==
    protocol(path) \notin {<<"h", "t", "t", "p">>, <<"h", "t", "t", "p", "s">>}

\* resolving cannot succeed: the path is handed to urlopen, which rejects it
resolver_must_fail(file, with_fsspec) ==
    /\ file.kind = "str"
    /\ ~with_fsspec
    /\ startswith(file.val, <<"h", "t", "t", "p">>)
    /\ urlopen_raises(file.val)

---------------------------------------------------------------------------
(* Tables: a DataFrame or an Arrow table is the sequence of its column names *)

\* the i-th name of a header row
header_name(i) == <<"h">> \o str(i)

\* the header row of a source of the given width
header_of(width) == [i \in 1..width |-> header_name(i)]

\* the names a rename list is made of
new_name(i) == <<"n">> \o str(i)

\* the columns setter of DataFrame: the table keeps its width and takes the
\* first names of the list
set_columns(cols, names) == SubSeq(names, 1, Min(Len(names), Len(cols)))

\* update_columns without its first branch: the list is installed as it is
update_columns_unmerged(cols, new_columns) == set_columns(cols, new_columns)

update_columns(cols, new_columns) ==
    IF Len(cols) > Len(new_columns)
    THEN set_columns(cols,
            [i \in 1..Len(cols) |->
                IF i <= Len(new_columns) THEN new_columns[i] ELSE cols[i]])
    ELSE set_columns(cols, new_columns)

\* failure / success of a reader
Failed == [ok |-> FALSE, cols |-> <<>>]

Read(cols) == [ok |-> TRUE, cols |-> cols]

\* pyarrow.csv.read_csv: the names are f0, f1, ... when autogenerated and the
\* header row otherwise; include_columns selects, in its order; a name that
\* is not in the file is an error unless include_missing_columns
pa_csv_read_csv(width, autogenerate, include_columns, include_missing) ==
    LET names == IF autogenerate THEN [i \in 1..width |-> f_name(i - 1)]
                 ELSE header_of(width)
    IN  IF IsNone(include_columns) THEN Read(names)
        ELSE IF include_missing \/ Range(include_columns[1]) \subseteq Range(names)
        THEN Read(include_columns[1])
        ELSE Failed

\* DataFrame.read_csv (the native reader): the names are column_1, column_2,
\* ... without a header; columns selects by name, else projection by index
native_read_csv(width, has_header, columns, projection) ==
    LET names == IF has_header THEN header_of(width)
                 ELSE [i \in 1..width |-> column_name(i)]
    IN  IF TruthyList(columns)
        THEN IF Range(columns[1]) \subseteq Range(names)
             THEN Read(columns[1]) ELSE Failed
        ELSE IF TruthyList(projection)
        THEN IF \A i \in 1..Len(projection[1]) : projection[1][i] + 1 \in 1..width
             THEN Read([i \in 1..Len(projection[1]) |-> names[projection[1][i] + 1]])
             ELSE Failed
        ELSE Read(names)

\* a column selector of read_ipc / read_parquet: names or indices
by_name(names) == [by |-> "name", items |-> names]

by_index(indices) == [by |-> "index", items |-> indices]

\* truth value of an Optional selector
TruthySel(x) == Len(x) = 1 /\ Len(x[1].items) > 0

\* the readers of read_ipc and read_parquet select by name or by index
select_columns(width, selector) ==
    IF ~TruthySel(selector) THEN Read(header_of(width))
    ELSE IF selector[1].by = "index"
    THEN IF \A i \in 1..Len(selector[1].items) : selector[1].items[i] + 1 \in 1..width
         THEN Read([i \in 1..Len(selector[1].items) |->
                        header_name(selector[1].items[i] + 1)])
         ELSE Failed
    ELSE IF Range(selector[1].items) \subseteq Range(header_of(width))
    THEN Read(selector[1].items) ELSE Failed

---------------------------------------------------------------------------
(* read_csv: what it computes before any I/O *)

\* line 236: an empty bytes object
empty_bytes(file) == file.kind = "bytes" /\ Len(file.val) = 0

\* the prefix check made when a header is present instead of absent
bad_column_prefix_with_header(o) ==
    /\ TruthyList(o.columns)
    /\ o.has_header
    /\ \E i \in 1..Len(o.columns[1]) : ~startswith(o.columns[1][i], column_)

\* lines 241-247: a selected name that does not start with "column_" while
\* the names are autogenerated
bad_column_prefix(o) ==
    /\ TruthyList(o.columns)
    /\ ~o.has_header
    /\ \E i \in 1..Len(o.columns[1]) : ~startswith(o.columns[1][i], column_)

\* line 249
pyarrow_missing(o, pyarrow_available) == o.use_pyarrow /\ ~pyarrow_available

\* the checks with the pyarrow check moved in front
csv_validation_pyarrow_first(file, o, pyarrow_available) ==
    IF o.use_pyarrow /\ ~pyarrow_available THEN "pyarrow_missing"
    ELSE IF file.kind = "bytes" /\ Len(file.val) = 0 THEN "empty_bytes"
    ELSE IF bad_column_prefix(o) THEN "column_prefix"
    ELSE "none"

\* lines 236-252: the first check that raises, "none" when all pass
csv_validation(file, o, pyarrow_available) ==
    IF empty_bytes(file) THEN "empty_bytes"
    ELSE IF bad_column_prefix(o) THEN "column_prefix"
    ELSE IF pyarrow_missing(o, pyarrow_available) THEN "pyarrow_missing"
    ELSE "none"

\* the condition without "dtypes is None"
use_pyarrow_path_any_dtypes(o) ==
    /\ o.use_pyarrow
    /\ IsNone(o.n_rows)
    /\ IsNone(o.n_threads)
    /\ o.encoding = "utf8"
    /\ ~o.low_memory
    /\ IsNone(o.null_values)
    /\ o.parse_dates

\* the condition without "parse_dates"
use_pyarrow_path_any_dates(o) ==
    /\ o.use_pyarrow
    /\ IsNone(o.dtypes)
    /\ IsNone(o.n_rows)
    /\ IsNone(o.n_threads)
    /\ o.encoding = "utf8"
    /\ ~o.low_memory
    /\ IsNone(o.null_values)

\* lines 254-263: the pyarrow reader is used
use_pyarrow_path(o) ==
    /\ o.use_pyarrow
    /\ IsNone(o.dtypes)
    /\ IsNone(o.n_rows)
    /\ IsNone(o.n_threads)
    /\ o.encoding = "utf8"
    /\ ~o.low_memory
    /\ IsNone(o.null_values)
    /\ o.parse_dates

\* line 270 raises: int() of the text after "column_"
include_columns_raises(o) ==
    /\ TruthyList(o.columns)
    /\ ~o.has_header
    /\ \E i \in 1..Len(o.columns[1]) : ~can_int(slice_from(o.columns[1][i], 7))

\* lines 264-276: include_columns for pyarrow
include_columns(o) ==
    IF TruthyList(o.columns)
    THEN IF ~o.has_header
         THEN Some([i \in 1..Len(o.columns[1]) |->
                        f_name(int(slice_from(o.columns[1][i], 7)) - 1)])
         ELSE o.columns
    ELSE IF TruthyList(o.projection)
    THEN Some([i \in 1..Len(o.projection[1]) |-> f_name(o.projection[1][i])])
    ELSE None

\* the translation back without the + 1
rename_autogenerated_zero_based(cols, has_header) ==
    IF has_header THEN cols
    ELSE [i \in 1..Len(cols) |-> column_name(int(slice_from(cols[i], 1)))]

\* lines 292-296: f0, f1, ... back to column_1, column_2, ...
rename_autogenerated(cols, has_header) ==
    IF has_header THEN cols
    ELSE [i \in 1..Len(cols) |-> column_name(int(slice_from(cols[i], 1)) + 1)]

---------------------------------------------------------------------------
(* read_csv: the dtypes handed to the native reader (lines 303-359) *)

a_dict(items) == [kind |-> "dict", items |-> items]

a_list(items) == [kind |-> "list", items |-> items]

\* line 303: new_columns and dtypes and isinstance(dtypes, dict)
renames_dtypes(o) ==
    /\ TruthyList(o.new_columns)
    /\ ~IsNone(o.dtypes)
    /\ o.dtypes[1].kind = "dict"
    /\ Len(o.dtypes[1].items) > 0

\* lines 308-312 raise
rename_longer(o) ==
    /\ renames_dtypes(o)
    /\ TruthyList(o.columns)
    /\ Len(o.columns[1]) < Len(o.new_columns[1])

\* lines 304-333: the names the renamed columns have while parsing
current_columns(o) ==
    IF TruthyList(o.columns)
    THEN Some(SubSeq(o.columns[1], 1,
                     Min(Len(o.columns[1]), Len(o.new_columns[1]))))
    ELSE IF ~o.has_header
    THEN IF TruthyList(o.projection)
         THEN Some([i \in 1..Len(o.projection[1]) |->
                        column_name(o.projection[1][i] + 1)])
         ELSE Some([i \in 1..Len(o.new_columns[1]) |-> column_name(i)])
    ELSE None

\* lines 341-345: the dtypes of the first len(dtypes) new names that have one
dtype_list(dtypes, new_columns) ==
    LET first == SubSeq(new_columns, 1, Min(Len(dtypes), Len(new_columns)))
        keyed(name) == dict_has(dtypes, name)
        kept == SelectSeq(first, keyed)
    IN  [i \in 1..Len(kept) |-> dict_at(dtypes, kept[i])]

\* lines 334-348: with a header the dict becomes a list when it fits
header_dtypes(o) ==
    IF /\ ~TruthyList(o.columns)
       /\ o.has_header
       /\ Len(o.dtypes[1].items) <= Len(o.new_columns[1])
       /\ Len(dtype_list(o.dtypes[1].items, o.new_columns[1])) = Len(o.dtypes[1].items)
    THEN Some(a_list(dtype_list(o.dtypes[1].items, o.new_columns[1])))
    ELSE o.dtypes

\* lines 350-359: the keys that are new names become the current names
rekey(dtypes, new_columns, current) ==
    LET new_to_current == dict_of(zip(new_columns, current))
    IN  dict_of([i \in 1..Len(dtypes) |->
                    <<dict_get(new_to_current, dtypes[i][1], dtypes[i][1]),
                      dtypes[i][2]>>])

\* lines 303-359, where they do not raise
reconcile(o) ==
    IF ~renames_dtypes(o) THEN o.dtypes
    ELSE IF TruthyList(current_columns(o)) /\ header_dtypes(o)[1].kind = "dict"
    THEN Some(a_dict(rekey(header_dtypes(o)[1].items, o.new_columns[1],
                           current_columns(o)[1])))
    ELSE header_dtypes(o)

\* lines 233-359: either the place that raises, or the reader chosen and
\* what it is given
csv_prepare(file, o, pyarrow_available) ==
    IF csv_validation(file, o, pyarrow_available) # "none"
    THEN [err |-> csv_validation(file, o, pyarrow_available),
          strategy |-> "none", include_columns |-> None, dtypes |-> None]
    ELSE IF use_pyarrow_path(o)
    THEN IF include_columns_raises(o)
         THEN [err |-> "int", strategy |-> "none",
               include_columns |-> None, dtypes |-> None]
         ELSE [err |-> "none", strategy |-> "pyarrow",
               include_columns |-> include_columns(o), dtypes |-> None]
    ELSE IF rename_longer(o)
    THEN [err |-> "rename_longer", strategy |-> "none",
          include_columns |-> None, dtypes |-> None]
    ELSE [err |-> "none", strategy |-> "native",
          include_columns |-> None, dtypes |-> reconcile(o)]

---------------------------------------------------------------------------
(* read_ipc, read_parquet: what they compute before any I/O *)

\* lines 614-618 and 686-690
n_rows_with_pyarrow(o) == o.use_pyarrow /\ TruthyInt(o.n_rows)

\* lines 630 and 705: columns if columns else projection
pyarrow_selector(o) ==
    IF TruthySel(o.columns) THEN o.columns
    ELSE IF TruthyList(o.projection) THEN Some(by_index(o.projection[1]))
    ELSE None

\* lines 634-642 and 710-718: the projection is unset when columns are given
native_selector(o) ==
    IF TruthySel(o.columns) THEN o.columns
    ELSE IF IsNone(o.projection) THEN None
    ELSE Some(by_index(o.projection[1]))

---------------------------------------------------------------------------
(* Exceptions *)

\* the places that raise, and the class of what they raise
ExcClass(site) ==
    CASE site \in {"empty_bytes", "column_prefix", "int", "rename_longer", "n_rows"}
            -> "ValueError"
      [] site = "pyarrow_missing" -> "ImportError"
      [] site = "resolver" -> "OSError"
      [] site = "reader" -> "ReaderError"
      [] OTHER -> "none"

\* the with statement's exit closes the stream(s) of these context managers;
\* managed_file releases nothing
closes_on_exit(ctx) == ctx.cm \in {"BytesIO", "OpenFile", "OpenFiles"}

---------------------------------------------------------------------------
(* State *)

VARIABLES
    PYARROW_AVAILABLE,  \* _PYARROW_AVAILABLE: pyarrow was imported
    WITH_FSSPEC,        \* _WITH_FSSPEC: fsspec was imported
    pc,                 \* where the running call is
    fn,                 \* the function called: "csv", "ipc" or "parquet"
    file,               \* the descriptor the caller passed
    width,              \* the number of columns the source holds
    o,                  \* the options the caller passed
    callerOpen,         \* the caller's stream object is open
    ctx,                \* the context manager _prepare_file_arg returned
    opened,             \* streams the resolver has opened during the call
    openNow,            \* streams of the resolver that are open now
    resolverCalls,      \* calls of _prepare_file_arg during the call
    altCalls,           \* calls of a pyarrow reader during the call
    nativeCalls,        \* calls of a native reader during the call
    args,               \* read_csv: the reader chosen and what it is given
    tbl,                \* the columns the reader returned
    df,                 \* read_csv: the columns before update_columns
    result,             \* the columns of the DataFrame returned
    errSite             \* the place that raised, "none" while nothing has

vars ==
    <<PYARROW_AVAILABLE, WITH_FSSPEC, pc, fn, file, width, o, callerOpen, ctx,
      opened, openNow, resolverCalls, altCalls, nativeCalls, args, tbl, df,
      result, errSite>>

env == <<PYARROW_AVAILABLE, WITH_FSSPEC>>

call == <<fn, file, width, o>>

NoCtx == [cm |-> "none", obj |-> "none", data |-> [kind |-> "none", val |-> <<>>]]

NoArgs ==
    [err |-> "none", strategy |-> "none", include_columns |-> None, dtypes |-> None]

Init ==
    /\ PYARROW_AVAILABLE \in BOOLEAN
    /\ WITH_FSSPEC \in BOOLEAN
    /\ pc = "idle"
    /\ fn = "none"
    /\ file = F_bytes
    /\ width = 1
    /\ o = <<>>
    /\ callerOpen = TRUE
    /\ ctx = NoCtx
    /\ opened = 0
    /\ openNow = 0
    /\ resolverCalls = 0
    /\ altCalls = 0
    /\ nativeCalls = 0
    /\ args = NoArgs
    /\ tbl = None
    /\ df = None
    /\ result = None
    /\ errSite = "none"

---------------------------------------------------------------------------
(* The calls *)

\* a call begins; calls share no state (the module keeps none between calls),
\* so a behaviour is one call
Call(f, g, w, opts) ==
    /\ pc = "idle"
    /\ pc' = "start"
    /\ fn' = f
    /\ file' = g
    /\ width' = w
    /\ o' = opts
    /\ callerOpen' = TRUE
    /\ ctx' = NoCtx
    /\ opened' = 0
    /\ openNow' = 0
    /\ resolverCalls' = 0
    /\ altCalls' = 0
    /\ nativeCalls' = 0
    /\ args' = NoArgs
    /\ tbl' = None
    /\ df' = None
    /\ result' = None
    /\ errSite' = "none"
    /\ UNCHANGED env

read_csv(files, widths, options) ==
    /\ pc = "idle"
    /\ \E g \in files, w \in widths, opts \in options : Call("csv", g, w, opts)

read_ipc(files, widths, options) ==
    /\ pc = "idle"
    /\ \E g \in files, w \in widths, opts \in options : Call("ipc", g, w, opts)

read_parquet(files, widths, options) ==
    /\ pc = "idle"
    /\ \E g \in files, w \in widths, opts \in options : Call("parquet", g, w, opts)

\* read_csv, lines 233-359: everything before the with statement
CsvPrepare ==
    /\ pc = "start"
    /\ fn = "csv"
    /\ args' = csv_prepare(file, o, PYARROW_AVAILABLE)
    /\ errSite' = args'.err
    /\ pc' = IF args'.err = "none" THEN "resolve" ELSE "done"
    /\ UNCHANGED <<env, call, callerOpen, ctx, opened, openNow, resolverCalls,
                   altCalls, nativeCalls, tbl, df, result>>

\* the n_rows check made inside the with statement, after the source is
\* resolved
BinPrepareInsideWith ==
    /\ pc = "start"
    /\ fn \in {"ipc", "parquet"}
    /\ ctx' = prepare_file_arg(file, WITH_FSSPEC)
    /\ resolverCalls' = resolverCalls + 1
    /\ opened' = opened + streams_of(ctx')
    /\ openNow' = openNow + streams_of(ctx')
    /\ errSite' = IF n_rows_with_pyarrow(o) THEN "n_rows" ELSE "none"
    /\ pc' = IF n_rows_with_pyarrow(o) THEN "exit" ELSE "body"
    /\ UNCHANGED <<env, call, callerOpen, altCalls, nativeCalls, args, tbl, df,
                   result>>

\* read_ipc, lines 614-620; read_parquet, lines 686-692
BinPrepare ==
    /\ pc = "start"
    /\ fn \in {"ipc", "parquet"}
    /\ errSite' = IF n_rows_with_pyarrow(o) THEN "n_rows" ELSE "none"
    /\ pc' = IF n_rows_with_pyarrow(o) THEN "done" ELSE "resolve"
    /\ UNCHANGED <<env, call, callerOpen, ctx, opened, openNow, resolverCalls,
                   altCalls, nativeCalls, args, tbl, df, result>>

\* _prepare_file_arg returns and the with statement enters its context
Resolve ==
    /\ pc = "resolve"
    /\ ~resolver_must_fail(file, WITH_FSSPEC)
    /\ ctx' = prepare_file_arg(file, WITH_FSSPEC)
    /\ resolverCalls' = resolverCalls + 1
    /\ opened' = opened + streams_of(ctx')
    /\ openNow' = openNow + streams_of(ctx')
    /\ pc' = "body"
    /\ UNCHANGED <<env, call, callerOpen, altCalls, nativeCalls, args, tbl, df,
                   result, errSite>>

\* urlopen or the remote filesystem raises: no stream is left open
ResolveFails ==
    /\ pc = "resolve"
    /\ reaches_network(file, WITH_FSSPEC)
    /\ resolverCalls' = resolverCalls + 1
    /\ errSite' = "resolver"
    /\ pc' = "done"
    /\ UNCHANGED <<env, call, callerOpen, ctx, opened, openNow, altCalls,
                   nativeCalls, args, tbl, df, result>>

\* the reader returned r, or raised
Returned(r) ==
    /\ tbl' = IF r.ok THEN Some(r.cols) ELSE None
    /\ errSite' = IF r.ok THEN "none" ELSE "reader"
    /\ pc' = "exit"

\* read_csv, lines 279-290: pa.csv.read_csv; the reader may also raise on
\* the contents of the source
CsvPyarrowRead ==
    /\ pc = "body"
    /\ fn = "csv"
    /\ args.strategy = "pyarrow"
    /\ altCalls' = altCalls + 1
    /\ \E raises \in BOOLEAN :
          Returned(IF raises THEN Failed
                   ELSE pa_csv_read_csv(width, ~o.has_header,
                                        args.include_columns, o.ignore_errors))
    /\ UNCHANGED <<env, call, callerOpen, ctx, opened, openNow, resolverCalls,
                   nativeCalls, args, df, result>>

\* read_csv, lines 362-382: DataFrame.read_csv
CsvNativeRead ==
    /\ pc = "body"
    /\ fn = "csv"
    /\ args.strategy = "native"
    /\ nativeCalls' = nativeCalls + 1
    /\ \E raises \in BOOLEAN :
          Returned(IF raises THEN Failed
                   ELSE native_read_csv(width, o.has_header, o.columns, o.projection))
    /\ UNCHANGED <<env, call, callerOpen, ctx, opened, openNow, resolverCalls,
                   altCalls, args, df, result>>

\* read_ipc, lines 622-626; read_parquet, lines 694-698
BinMissingPyarrow ==
    /\ pc = "body"
    /\ fn \in {"ipc", "parquet"}
    /\ o.use_pyarrow
    /\ ~PYARROW_AVAILABLE
    /\ errSite' = "pyarrow_missing"
    /\ pc' = "exit"
    /\ UNCHANGED <<env, call, callerOpen, ctx, opened, openNow, resolverCalls,
                   altCalls, nativeCalls, args, tbl, df, result>>

\* read_ipc, lines 628-632; read_parquet, lines 700-708
BinPyarrowRead ==
    /\ pc = "body"
    /\ fn \in {"ipc", "parquet"}
    /\ o.use_pyarrow
    /\ PYARROW_AVAILABLE
    /\ altCalls' = altCalls + 1
    /\ \E raises \in BOOLEAN :
          Returned(IF raises THEN Failed
                   ELSE select_columns(width, pyarrow_selector(o)))
    /\ UNCHANGED <<env, call, callerOpen, ctx, opened, openNow, resolverCalls,
                   nativeCalls, args, df, result>>

\* read_ipc, lines 634-643; read_parquet, lines 710-719
BinNativeRead ==
    /\ pc = "body"
    /\ fn \in {"ipc", "parquet"}
    /\ ~o.use_pyarrow
    /\ nativeCalls' = nativeCalls + 1
    /\ \E raises \in BOOLEAN :
          Returned(IF raises THEN Failed
                   ELSE select_columns(width, native_selector(o)))
    /\ UNCHANGED <<env, call, callerOpen, ctx, opened, openNow, resolverCalls,
                   altCalls, args, df, result>>

\* a release that is skipped when the body raised (no with statement)
ReleaseUnlessRaised ==
    /\ pc = "exit"
    /\ callerOpen' = IF errSite = "none" /\ closes_on_exit(ctx) /\ ctx.obj = "caller"
                     THEN FALSE ELSE callerOpen
    /\ openNow' = IF errSite = "none" /\ closes_on_exit(ctx) /\ ctx.obj = "new"
                  THEN 0 ELSE openNow
    /\ result' = IF errSite = "none" /\ fn # "csv" THEN tbl ELSE result
    /\ pc' = IF errSite = "none" /\ fn = "csv" THEN "finish" ELSE "done"
    /\ UNCHANGED <<env, call, ctx, opened, resolverCalls, altCalls, nativeCalls,
                   args, tbl, df, errSite>>

\* the with statement exits, whether its body returned or raised; read_ipc
\* and read_parquet return from inside it
Release ==
    /\ pc = "exit"
    /\ callerOpen' = IF closes_on_exit(ctx) /\ ctx.obj = "caller"
                     THEN FALSE ELSE callerOpen
    /\ openNow' = IF closes_on_exit(ctx) /\ ctx.obj = "new" THEN 0 ELSE openNow
    /\ result' = IF errSite = "none" /\ fn # "csv" THEN tbl ELSE result
    /\ pc' = IF errSite = "none" /\ fn = "csv" THEN "finish" ELSE "done"
    /\ UNCHANGED <<env, call, ctx, opened, resolverCalls, altCalls, nativeCalls,
                   args, tbl, df, errSite>>

\* read_csv, lines 292-301 and 384-386
CsvFinish ==
    /\ pc = "finish"
    /\ df' = IF args.strategy = "pyarrow"
             THEN Some(rename_autogenerated(tbl[1], o.has_header))
             ELSE tbl
    /\ result' = IF TruthyList(o.new_columns)
                 THEN Some(update_columns(df'[1], o.new_columns[1]))
                 ELSE df'
    /\ pc' = "done"
    /\ UNCHANGED <<env, call, callerOpen, ctx, opened, openNow, resolverCalls,
                   altCalls, nativeCalls, args, tbl, errSite>>

---------------------------------------------------------------------------
(* What the callers pass *)

Int64 == "Int64"

\* rename lists: the first n of n1, n2, ...
rename_list(n) == [i \in 1..n |-> new_name(i)]

RenameLists == {None} \cup {Some(rename_list(n)) : n \in 0..MaxRename}

\* read_csv with its defaults (lines 138-158)
CsvDefaults ==
    [has_header |-> TRUE, ignore_errors |-> FALSE, n_rows |-> None,
     projection |-> None, columns |-> None, encoding |-> "utf8",
     n_threads |-> None, dtypes |-> None, new_columns |-> None,
     use_pyarrow |-> FALSE, low_memory |-> FALSE, null_values |-> None,
     parse_dates |-> FALSE]

\* every descriptor, with the options that decide the reader and its errors
CsvSourceOptions ==
    [has_header : BOOLEAN, ignore_errors : {FALSE}, n_rows : {None},
     projection : {None},
     columns : {None, Some(<<column_name(1)>>), Some(<<header_name(1)>>)},
     encoding : {"utf8"}, n_threads : {None},
     dtypes : {None, Some(a_dict(<<<<new_name(1), Int64>>>>))},
     new_columns : {None, Some(rename_list(2))},
     use_pyarrow : BOOLEAN, low_memory : {FALSE}, null_values : {None},
     parse_dates : BOOLEAN]

BinOptions ==
    [columns : {None, Some(by_name(<<header_name(1)>>)), Some(by_index(<<0>>))},
     projection : {None, Some(<<1>>)},
     n_rows : {None, Some(0), Some(2)},
     use_pyarrow : BOOLEAN]

Steps ==
    \/ CsvPrepare
    \/ BinPrepare
    \/ Resolve
    \/ ResolveFails
    \/ CsvPyarrowRead
    \/ CsvNativeRead
    \/ BinMissingPyarrow
    \/ BinPyarrowRead
    \/ BinNativeRead
    \/ Release
    \/ CsvFinish

\* read_parquet also takes a list of paths (line 647)
ParquetFiles == Files \cup ListFiles

Widths == {MaxWidth}

Next ==
    \/ read_csv(Files, Widths, CsvSourceOptions)
    \/ read_ipc(Files, Widths, BinOptions)
    \/ read_parquet(ParquetFiles, Widths, BinOptions)
    \/ Steps

Spec == Init /\ [][Next]_vars

\* read_csv alone, on local sources (the resolver cannot fail there)
CsvSteps ==
    \/ CsvPrepare
    \/ Resolve
    \/ CsvPyarrowRead
    \/ CsvNativeRead
    \/ Release
    \/ CsvFinish

\* every combination of the options that decide the reader
CsvSelectorOptions ==
    [has_header : BOOLEAN, ignore_errors : {FALSE},
     n_rows : {None, Some(0), Some(2)},
     projection : {None}, columns : {None, Some(<<header_name(1)>>)},
     encoding : {"utf8", "utf8-lossy"},
     n_threads : {None, Some(2)},
     dtypes : {None, Some(a_dict(<<>>)), Some(a_list(<<Int64>>))},
     new_columns : {None},
     use_pyarrow : BOOLEAN, low_memory : BOOLEAN,
     null_values : {None, Some(<<"N", "A">>)},
     parse_dates : BOOLEAN]

\* bytes (empty or not), a caller's stream and a local path
SelFiles == {F_empty_bytes, F_BytesIO, F_str(P_local)}

SelWidths == {1, MaxWidth}

NextSel ==
    \/ read_csv(SelFiles, SelWidths, CsvSelectorOptions)
    \/ CsvSteps

SpecSel == Init /\ [][NextSel]_vars

\* the selections of columns a caller names
ColumnSelections ==
    {None, Some(<<>>),
     Some(<<column_name(1)>>),
     Some(<<column_name(2), column_name(1)>>),
     Some(<<column_name(0)>>),
     Some(<<column_ \o <<"x">> >>),
     Some(<<column_ \o <<"0", "1">> >>),
     Some(<<header_name(1)>>),
     Some(<<column_name(1), header_name(2)>>)}

\* the options that decide the names of the columns returned
CsvNameOptions ==
    [has_header : BOOLEAN, ignore_errors : BOOLEAN, n_rows : {None},
     projection : {None, Some(<<1>>), Some(<<0, 9>>)},
     columns : ColumnSelections,
     encoding : {"utf8"}, n_threads : {None}, dtypes : {None},
     new_columns : RenameLists,
     use_pyarrow : BOOLEAN, low_memory : {FALSE}, null_values : {None},
     parse_dates : {TRUE}]

NameFiles == {F_str(P_local), F_empty_bytes}

NameWidths == 1..MaxWidth

NextNames ==
    \/ read_csv(NameFiles, NameWidths, CsvNameOptions)
    \/ CsvSteps

SpecNames == Init /\ [][NextNames]_vars

Utf8 == "Utf8"

\* the names a caller keys a dtype by: names of the rename list, a name of
\* the header and synthetic names
DtypeKeys ==
    {new_name(1), new_name(2), new_name(3), header_name(1), column_name(1)}

DtypePairs == {<<k, t>> : k \in DtypeKeys, t \in {Int64, Utf8}}

\* dicts of one or two overrides, in the order the caller wrote them
DtypeDicts ==
    {<<a>> : a \in DtypePairs}
        \cup {<<ab[1], ab[2]>> :
                ab \in {p \in DtypePairs \X DtypePairs : p[1][1] # p[2][1]}}

DtypeOverrides ==
    {None, Some(a_list(<<Int64, Utf8, Int64>>))} \cup {Some(a_dict(d)) : d \in DtypeDicts}

\* rename lists, one of them with a name written twice
DtypeRenameLists ==
    {None,
     Some(<<new_name(1)>>),
     Some(<<new_name(1), new_name(2)>>),
     Some(<<new_name(1), new_name(1)>>),
     Some(<<new_name(1), new_name(2), new_name(3)>>)}

DtypeSelections ==
    {None,
     Some(<<header_name(1)>>),
     Some(<<header_name(2), header_name(1)>>),
     Some(<<column_name(2), column_name(1)>>)}

\* the options the dtypes handed to the native reader depend on
CsvDtypeOptions ==
    [has_header : BOOLEAN, ignore_errors : {FALSE}, n_rows : {None},
     projection : {None, Some(<<1>>), Some(<<2, 0>>)},
     columns : DtypeSelections,
     encoding : {"utf8"}, n_threads : {None},
     dtypes : DtypeOverrides,
     new_columns : DtypeRenameLists,
     use_pyarrow : {FALSE}, low_memory : {FALSE}, null_values : {None},
     parse_dates : {FALSE}]

DtypeFiles == {F_str(P_local)}

\* read_csv through the native reader
CsvNativeSteps ==
    \/ CsvPrepare
    \/ Resolve
    \/ CsvNativeRead
    \/ Release
    \/ CsvFinish

NextDtypes ==
    \/ read_csv(DtypeFiles, Widths, CsvDtypeOptions)
    \/ CsvNativeSteps

SpecDtypes == Init /\ [][NextDtypes]_vars

---------------------------------------------------------------------------
(* Properties *)

Done == pc = "done"

CsvDone == pc = "done" /\ fn = "csv"

Returned_ok == Done /\ errSite = "none"

\* C1: after update_columns the table has its width; column i carries
\* new_columns[i] for every i up to the length of the list and its own name
\* beyond it, so a list longer than the table is cut to the width.
C1_Rename ==
    (CsvDone /\ errSite = "none" /\ ~IsNone(o.new_columns)) =>
        /\ Len(result[1]) = Len(df[1])
        /\ \A i \in 1..Len(df[1]) :
              result[1][i] = IF i <= Len(o.new_columns[1])
                             THEN o.new_columns[1][i] ELSE df[1][i]

\* a list longer than a table of two or more columns was applied after the
\* pyarrow reader
C1_Witness ==
    /\ CsvDone /\ errSite = "none"
    /\ TruthyList(o.new_columns)
    /\ args.strategy = "pyarrow"
    /\ Len(df[1]) >= 2
    /\ Len(o.new_columns[1]) > Len(df[1])
    /\ result[1] = SubSeq(o.new_columns[1], 1, Len(df[1]))

\* a list shorter than the table was applied after the native reader
C1_WitnessShort ==
    /\ CsvDone /\ errSite = "none"
    /\ TruthyList(o.new_columns)
    /\ args.strategy = "native"
    /\ Len(o.new_columns[1]) < Len(df[1])
    /\ result[1][Len(df[1])] = df[1][Len(df[1])]

\* an option the pyarrow reader does not support is set
Unsupported(opts) ==
    \/ ~IsNone(opts.dtypes)
    \/ ~IsNone(opts.n_rows)
    \/ ~IsNone(opts.n_threads)
    \/ opts.encoding # "utf8"
    \/ opts.low_memory
    \/ ~IsNone(opts.null_values)

\* the call was not rejected for its source or its selection of columns
OtherwiseValid == errSite \notin {"empty_bytes", "column_prefix"}

\* C2 as stated: with use_pyarrow and an unsupported option, read_csv raises
\* nothing on account of the request whether or not pyarrow is installed,
\* calls the native reader and never the pyarrow reader.
C2_Original ==
    (CsvDone /\ o.use_pyarrow /\ Unsupported(o) /\ OtherwiseValid) =>
        /\ errSite # "pyarrow_missing"
        /\ nativeCalls = 1
        /\ altCalls = 0

\* C2 amended: with use_pyarrow and an unsupported option the pyarrow reader
\* is never called; when pyarrow is installed nothing is raised on account of
\* the request and the native reader is called; when it is not installed
\* ImportError is raised before the source is resolved and no reader is called.
C2_Fallback ==
    /\ (fn = "csv" /\ o.use_pyarrow /\ Unsupported(o)) => altCalls = 0
    /\ (CsvDone /\ o.use_pyarrow /\ Unsupported(o) /\ OtherwiseValid) =>
          IF PYARROW_AVAILABLE
          THEN errSite \in {"none", "reader"} /\ nativeCalls = 1
          ELSE /\ errSite = "pyarrow_missing"
               /\ resolverCalls = 0
               /\ nativeCalls = 0

\* the native reader served a call that asked for pyarrow with dtypes
C2_Witness ==
    /\ CsvDone /\ errSite = "none"
    /\ o.use_pyarrow /\ o.parse_dates
    /\ ~IsNone(o.dtypes)
    /\ PYARROW_AVAILABLE
    /\ nativeCalls = 1 /\ altCalls = 0

\* the options for which the claim lets the alternate reader be chosen
AlternateEligible(opts) ==
    /\ opts.use_pyarrow
    /\ IsNone(opts.dtypes)
    /\ IsNone(opts.n_rows)
    /\ IsNone(opts.n_threads)
    /\ opts.encoding = "utf8"
    /\ ~opts.low_memory
    /\ IsNone(opts.null_values)
    /\ opts.parse_dates

\* the call raised in this layer before it chose a reader, or in the resolver
RaisedBeforeReading ==
    errSite \in {"empty_bytes", "column_prefix", "pyarrow_missing", "int",
                 "rename_longer", "resolver"}

\* C3: a read_csv call calls at most one reader; a call that passes validation
\* calls exactly one, once: the pyarrow reader iff the eight conditions on the
\* options hold, the native reader otherwise, whatever the source.
C3_ExactlyOne ==
    /\ fn = "csv" => altCalls + nativeCalls <= 1
    /\ (CsvDone /\ ~RaisedBeforeReading) =>
          /\ altCalls + nativeCalls = 1
          /\ altCalls = 1 <=> AlternateEligible(o)

\* pyarrow was asked for without date parsing and the native reader served
C3_Witness ==
    /\ CsvDone /\ errSite = "none"
    /\ o.use_pyarrow /\ ~o.parse_dates /\ ~Unsupported(o)
    /\ nativeCalls = 1 /\ altCalls = 0

\* the pyarrow reader served an eligible call
C3_WitnessAlternate ==
    /\ CsvDone /\ errSite = "none"
    /\ AlternateEligible(o)
    /\ altCalls = 1 /\ nativeCalls = 0

\* the source came back as the caller passed it: the resolver made no stream
PassedThrough == resolverCalls = 1 /\ ctx.obj # "new" /\ errSite # "resolver"

\* C4 as stated: when the resolver passes the caller's object through, the
\* release at the end of the call leaves it as it was: still open.
C4_ReleaseIsNoOp == (Returned_ok /\ PassedThrough) => callerOpen

\* C5: once a call has ended, on any path, no stream the resolver opened for
\* it is open.
C5_Released == Done => openNow = 0

\* the reader raised while a stream of the resolver was open
C5_Witness ==
    /\ Done
    /\ errSite = "reader"
    /\ opened > 0
    /\ openNow = 0

\* ImportError was raised inside the with statement of read_ipc / read_parquet
\* while a stream of the resolver was open
C5_WitnessMissing ==
    /\ Done
    /\ errSite = "pyarrow_missing"
    /\ opened > 0
    /\ openNow = 0

\* C6: read_csv of an empty bytes object raises ValueError at the empty-bytes
\* check whatever the other options, and neither the resolver nor a reader is
\* ever called.
C6_EmptyBytes ==
    (fn = "csv" /\ empty_bytes(file)) =>
        /\ resolverCalls = 0 /\ altCalls = 0 /\ nativeCalls = 0
        /\ pc \in {"start", "done"}
        /\ Done => errSite = "empty_bytes" /\ ExcClass(errSite) = "ValueError"

\* an empty bytes object was rejected although the selection of columns is
\* invalid too and pyarrow, asked for, is missing
C6_Witness ==
    /\ CsvDone
    /\ empty_bytes(file)
    /\ bad_column_prefix(o)
    /\ o.use_pyarrow /\ ~PYARROW_AVAILABLE
    /\ errSite = "empty_bytes"

\* a name of the form column_<k>: the prefix and one or more digits
is_synthetic(name) ==
    /\ startswith(name, column_)
    /\ Len(name) > Len(column_)
    /\ \A i \in (Len(column_) + 1)..Len(name) : IsDigit(name[i])

\* C7 as stated: header-less read_csv with a selected name that is not of the
\* form column_<k> raises ValueError, whichever reader would be chosen
\* (pyarrow being installed when it is asked for).
C7_Original ==
    (/\ CsvDone
     /\ o.use_pyarrow => PYARROW_AVAILABLE
     /\ ~o.has_header
     /\ TruthyList(o.columns)
     /\ \E i \in 1..Len(o.columns[1]) : ~is_synthetic(o.columns[1][i])) =>
        ExcClass(errSite) = "ValueError"

\* C7 amended: header-less read_csv with a selected name that does not start
\* with "column_" raises ValueError (at the prefix check, unless the source is
\* an empty bytes object, which is rejected first) before the resolver and
\* the readers are called, whichever reader would be chosen.
C7_PrefixRejected ==
    (/\ fn = "csv"
     /\ ~o.has_header
     /\ TruthyList(o.columns)
     /\ \E i \in 1..Len(o.columns[1]) : ~startswith(o.columns[1][i], column_)) =>
        /\ resolverCalls = 0 /\ altCalls = 0 /\ nativeCalls = 0
        /\ pc \in {"start", "done"}
        /\ Done => /\ ExcClass(errSite) = "ValueError"
                   /\ errSite = IF empty_bytes(file) THEN "empty_bytes"
                                ELSE "column_prefix"

\* a call the pyarrow reader would have served was rejected for a name
\* without the prefix
C7_Witness ==
    /\ CsvDone
    /\ AlternateEligible(o) /\ PYARROW_AVAILABLE
    /\ ~o.has_header
    /\ errSite = "column_prefix"

\* the names the native reader gives the columns of a header-less source
synthetic_names(n) == [i \in 1..n |-> column_name(i)]

\* C8: a header-less read served by the pyarrow reader returns, with no
\* selection, the names column_1..column_N the native reader returns; and a
\* selection of names column_<k> comes back as the names selected.
C8_HeaderlessNames ==
    (CsvDone /\ errSite = "none" /\ ~o.has_header /\ args.strategy = "pyarrow") =>
        /\ (~TruthyList(o.columns) /\ ~TruthyList(o.projection)) =>
              /\ df[1] = synthetic_names(width)
              /\ df[1] = native_read_csv(width, o.has_header, o.columns,
                                         o.projection).cols
              /\ ~TruthyList(o.new_columns) => result[1] = synthetic_names(width)
        /\ (/\ TruthyList(o.columns)
            /\ \A i \in 1..Len(o.columns[1]) :
                  \E k \in 0..(MaxWidth + 10) : o.columns[1][i] = column_name(k)) =>
              df[1] = o.columns[1]

\* the pyarrow reader read all columns of a header-less source of two or more
C8_Witness ==
    /\ CsvDone /\ errSite = "none"
    /\ ~o.has_header
    /\ altCalls = 1
    /\ ~TruthyList(o.columns) /\ ~TruthyList(o.projection)
    /\ width >= 2
    /\ df[1][width] = column_name(width)

\* the pyarrow reader read two selected columns of a header-less source
C8_WitnessSelection ==
    /\ CsvDone /\ errSite = "none"
    /\ ~o.has_header
    /\ altCalls = 1
    /\ TruthyList(o.columns)
    /\ args.include_columns = Some(<<f_name(1), f_name(0)>>)
    /\ df[1] = <<column_name(2), column_name(1)>>

\* C9 as stated: read_ipc / read_parquet with use_pyarrow and n_rows not None
\* never call the pyarrow reader and never return a table: they raise.
C9_RowCapRejected ==
    (fn \in {"ipc", "parquet"} /\ o.use_pyarrow /\ ~IsNone(o.n_rows)) =>
        /\ altCalls = 0
        /\ ~Returned_ok
        /\ (Done /\ resolverCalls = 0) => errSite = "n_rows"

\* C10: a call that ends in a ValueError of this layer for an invalid
\* combination of options has called neither the resolver nor a reader and
\* has opened no stream.
C10_RaisedBeforeIO ==
    (Done /\ errSite \in {"column_prefix", "rename_longer", "n_rows", "int"}) =>
        /\ resolverCalls = 0
        /\ altCalls = 0
        /\ nativeCalls = 0
        /\ opened = 0
        /\ callerOpen

\* read_csv raised for a rename list longer than the selection
C10_Witness ==
    /\ CsvDone
    /\ errSite = "rename_longer"
    /\ resolverCalls = 0

\* read_parquet raised for n_rows with pyarrow on a remote list of paths
C10_WitnessRowCap ==
    /\ Done
    /\ fn = "parquet"
    /\ errSite = "n_rows"
    /\ file.kind = "list"
    /\ WITH_FSSPEC

\* C11 as stated: on a path string the resolver delegates to fsspec when it
\* is installed and the scheme is not "file"; without fsspec it buffers the
\* body of a path with the scheme http or https; every other path is
\* resolved to the unchanged string, with nothing fetched or buffered.
has_http_scheme(path) ==
    protocol(path) \in {<<"h", "t", "t", "p">>, <<"h", "t", "t", "p", "s">>}

C11_PathResolution ==
    (file.kind = "str" /\ resolverCalls = 1) =>
        IF WITH_FSSPEC /\ ~is_local(file.val)
        THEN \/ errSite = "resolver"
             \/ /\ ctx.cm = "OpenFile"
                /\ ctx.data = [kind |-> "fsspec_stream", val |-> file.val]
        ELSE IF ~WITH_FSSPEC /\ has_http_scheme(file.val)
        THEN \/ errSite = "resolver"
             \/ ctx = new_BytesIO(HttpBody)
        ELSE /\ errSite # "resolver"
             /\ ctx = managed_file(file)

\* the caller supplied a rename list and name-keyed dtype overrides
NameKeyed(opts) ==
    /\ TruthyList(opts.new_columns)
    /\ ~IsNone(opts.dtypes)
    /\ opts.dtypes[1].kind = "dict"
    /\ Len(opts.dtypes[1].items) > 0

\* the native reader is the one read_csv chose, and what it is handed is set
HandedToNative == fn = "csv" /\ args.strategy = "native"

\* the keys of a dict
Keys(d) == {d[i][1] : i \in 1..Len(d)}

\* C12 as stated: with a column selection and a rename list no longer than
\* it, the dtypes handed to the native reader give columns[i] the dtype
\* supplied under new_columns[i] and keep every other override under its own
\* key with its own dtype, so that no supplied override is lost or replaced.
C12_RuleSelection ==
    (/\ HandedToNative
     /\ NameKeyed(o)
     /\ TruthyList(o.columns)
     /\ Len(o.new_columns[1]) <= Len(o.columns[1])) =>
        LET supplied == o.dtypes[1].items
            handed == args.dtypes[1]
        IN  /\ handed.kind = "dict"
            /\ \A i \in 1..Len(o.new_columns[1]) :
                  dict_has(supplied, o.new_columns[1][i]) =>
                      /\ dict_has(handed.items, o.columns[1][i])
                      /\ dict_at(handed.items, o.columns[1][i])
                            = dict_at(supplied, o.new_columns[1][i])
            /\ \A k \in Keys(supplied) \ Range(o.new_columns[1]) :
                  /\ dict_has(handed.items, k)
                  /\ dict_at(handed.items, k) = dict_at(supplied, k)

\* every key of the overrides is among the first N names of the rename list,
\* N the number of overrides
FitsFirstTargets(supplied, new_columns) ==
    /\ Len(supplied) <= Len(new_columns)
    /\ Keys(supplied) \subseteq Range(SubSeq(new_columns, 1, Len(supplied)))

\* C13 as stated: with a header, no column selection, a rename list and
\* name-keyed overrides, the native reader is handed the list of the dtypes
\* of the first N rename targets, in their order, when N <= len(new_columns)
\* and every override key is among those targets, and in every other case
\* exactly the dict the caller supplied.
C13_RuleHeader ==
    (/\ HandedToNative
     /\ NameKeyed(o)
     /\ o.has_header
     /\ ~TruthyList(o.columns)) =>
        LET supplied == o.dtypes[1].items
            handed == args.dtypes[1]
        IN  IF FitsFirstTargets(supplied, o.new_columns[1])
            THEN /\ handed.kind = "list"
                 /\ handed.items =
                        [i \in 1..Len(supplied) |->
                            dict_at(supplied, o.new_columns[1][i])]
            ELSE /\ handed.kind = "dict"
                 /\ handed.items = supplied

\* C14 as stated: without a header and without a column selection, with a
\* rename list and name-keyed overrides, preparing the call never raises;
\* the override keyed by new_columns[i] is handed to the native reader under
\* column_<projection[i] + 1> when a projection is given (i within both
\* lists) and under column_<i> (i counted from 1) when none is given, and
\* an override keyed by any other name is handed over as it was supplied.
C14_RuleHeaderless ==
    (/\ fn = "csv"
     /\ pc # "start"
     /\ ~o.use_pyarrow
     /\ NameKeyed(o)
     /\ ~o.has_header
     /\ ~TruthyList(o.columns)) =>
        LET supplied == o.dtypes[1].items
            new == o.new_columns[1]
            n == IF TruthyList(o.projection)
                 THEN Min(Len(new), Len(o.projection[1]))
                 ELSE Len(new)
            target(i) == IF TruthyList(o.projection)
                         THEN column_name(o.projection[1][i] + 1)
                         ELSE column_name(i)
        IN  /\ HandedToNative
            /\ args.dtypes[1].kind = "dict"
            /\ \A i \in 1..n :
                  dict_has(supplied, new[i]) =>
                      /\ dict_has(args.dtypes[1].items, target(i))
                      /\ dict_at(args.dtypes[1].items, target(i))
                            = dict_at(supplied, new[i])
            /\ \A k \in Keys(supplied) \ Range(SubSeq(new, 1, n)) :
                  /\ dict_has(args.dtypes[1].items, k)
                  /\ dict_at(args.dtypes[1].items, k) = dict_at(supplied, k)

\* a name of the form f<k>, the names pyarrow generates for a source
\* without a header
is_positional(name) ==
    /\ startswith(name, <<"f">>)
    /\ can_int(slice_from(name, 1))

\* C15 as stated: the names read_csv hands to the pyarrow reader as
\* include_columns are names of the scheme that reader uses in the same
\* call: all of the form f<k> when it is asked to generate the names (no
\* header), and with a header never of that form but names of the header
\* or the names the caller selected.
C15_IncludeColumnsScheme ==
    (/\ fn = "csv"
     /\ args.strategy = "pyarrow"
     /\ ~IsNone(args.include_columns)) =>
        \A i \in 1..Len(args.include_columns[1]) :
            IF ~o.has_header
            THEN is_positional(args.include_columns[1][i])
            ELSE \/ args.include_columns[1][i] \in Range(header_of(width))
                 \/ /\ TruthyList(o.columns)
                    /\ args.include_columns[1][i] \in Range(o.columns[1])

====
